---- MODULE Spec2Model ----
(***************************************************************************)
(* A model of the HyperCrawl crawler: the Link Graph (src/model/link.rs),  *)
(* the worker-pool crawl loop (src/main.rs) and the image pipeline         *)
(* (src/image_utils.rs).                                                   *)
(*                                                                         *)
(* Five specifications share the module:                                   *)
(*   SpecGraph  sequences of LinkGraph::update calls, then the flatten     *)
(*   SpecImg    download_images / download_image                           *)
(*   SpecExt    one call of try_download_image, for any response           *)
(*   Spec       a crawl run: the driver and its workers                    *)
(*   SpecStatus a crawl run with the output_status task                    *)
(***************************************************************************)
EXTENDS Integers, Sequences, FiniteSets, TLC

VARIABLES
    link_graph,      \* LinkGraph: [links: id -> Link, link_ids: url -> id]
    uuid_count,      \* number of values Uuid::new_v4 has handed out
    mode,            \* which program is running: "graph", "images", "crawl", ...
    \* ---- SpecGraph
    n_updates,       \* number of update calls made
    primaries,       \* ghost: the strings passed as update's `url` argument
    last_update,     \* ghost: arguments and result of the latest update call
    image_metadata,  \* HashMap<String, Image> built by convert_links_to_images
    \* ---- SpecImg: download_images and download_image
    max_images,      \* download_images' max_links argument (args.max_images)
    dir_exists,      \* whether save_directory is a directory
    dl_pc,           \* where download_images / download_image stands
    dl_order,        \* ghost: the order in which images.iter() yields the keys
    dl_todo,         \* what images.iter().take(max) has yet to yield
    dl_calls,        \* ghost: the keys download_image was called for, in order
    attempt,         \* download_image's loop variable
    last_error,      \* download_image's last_error
    dl_log,          \* ghost: the current or latest download_image call
    n_logged,        \* ghost: number of "Could not download image" errors logged
    files,           \* ghost: the files File::create has created
    ext_res,         \* the response handed to try_download_image on its own
    ext_out,         \* what that call returned and the extension it resolved
    \* ---- Spec: a crawl run
    starting_url,    \* args.starting_url
    n_workers,       \* args.n_worker_threads
    max_links,       \* CrawlerState.max_links
    base_domain,     \* CrawlerState.base_domain
    link_queue,      \* CrawlerState.link_queue: VecDeque<LinkPath>
    visited_count,   \* CrawlerState.visited_count
    queue_lock,      \* the worker holding link_queue.write(), 0 when free
    graph_lock,      \* the worker holding link_graph.write(), 0 when free
    pc,              \* each worker's position in crawl
    cur,             \* each worker's `parent` and `normalized_url`
    scrape_output,   \* each worker's scrape_output
    idx,             \* each worker's position in scrape_output.links
    fetched,         \* ghost: how often each url was passed to scrape_page
    starved_early,   \* ghost: a worker left by starvation while another worker
                     \*        had an admitted fetch in flight
    status_pc        \* the position of the output_status task, "off" without it

graph_vars == <<link_graph, uuid_count, n_updates, primaries, last_update>>
img_vars == <<max_images, dir_exists, dl_pc, dl_order, dl_todo, dl_calls,
              attempt, last_error, dl_log, n_logged, files, ext_res, ext_out>>
crawl_vars == <<starting_url, n_workers, max_links, base_domain, link_queue, visited_count,
                queue_lock, graph_lock, pc, cur, scrape_output, idx, fetched,
                starved_early, status_pc>>
vars == <<graph_vars, mode, image_metadata, img_vars, crawl_vars>>

(***************************************************************************)
(* Strings.  A URL text is kept as its components; host is a sequence of   *)
(* characters so that suffix tests are done as the code does them.         *)
(***************************************************************************)
Txt(scheme, host, path, frag) ==
    [scheme |-> scheme, host |-> host, path |-> path, frag |-> frag]

\* String::new() / Default::default(): the text ""
EmptyString == Txt("", <<>>, "", "")

Digits == {"0", "1", "2", "3", "4", "5", "6", "7", "8", "9"}

RECURSIVE SeqToSet(_)
SeqToSet(s) == IF s = <<>> THEN {} ELSE {Head(s)} \cup SeqToSet(Tail(s))

\* str::ends_with
EndsWith(s, suffix) ==
    /\ Len(suffix) <= Len(s)
    /\ SubSeq(s, Len(s) - Len(suffix) + 1, Len(s)) = suffix

(***************************************************************************)
(* model::Image and model::Link                                            *)
(***************************************************************************)
Image(link, alt) == [link |-> link, alt |-> alt]

\* Link::new(url), the id drawn from Uuid::new_v4
LinkNew(id, url) ==
    [id |-> id, url |-> url, parents |-> {}, children |-> {},
     images |-> <<>>, titles |-> <<>>]

\* Default for LinkGraph: two empty maps
EmptyGraph == [links |-> <<>>, link_ids |-> <<>>]

\* Uuid::new_v4(): a value never handed out before
NewUuid(count) == count + 1

\* LinkGraph::len
GraphLen(g) == Cardinality(DOMAIN g.links)

\* LinkGraph::link_visited
link_visited(g, url) == url \in DOMAIN g.link_ids

\* HashMap::insert on a TLA+ function
MapInsert(m, k, v) == [x \in (DOMAIN m) \cup {k} |-> IF x = k THEN v ELSE m[x]]

\* variant of force_get_link_id that never looks the url up
force_get_link_id_always_new(g, count, url) ==
    LET id == NewUuid(count) IN
    [links    |-> MapInsert(g.links, id, LinkNew(id, url)),
     link_ids |-> MapInsert(g.link_ids, url, id),
     id       |-> id,
     count    |-> count + 1]

\* LinkGraph::force_get_link_id: the graph after the call, the id of the
\* Link it returns, and the uuid counter.  A fresh uuid never collides with a
\* key of `links`, so the "link already exists" error does not arise.
force_get_link_id(g, count, url) ==
    IF url \in DOMAIN g.link_ids
    THEN [links    |-> g.links,
          link_ids |-> MapInsert(g.link_ids, url, g.link_ids[url]),
          id       |-> g.link_ids[url],
          count    |-> count]
    ELSE LET id == NewUuid(count) IN
         [links    |-> MapInsert(g.links, id, LinkNew(id, url)),
          link_ids |-> MapInsert(g.link_ids, url, id),
          id       |-> id,
          count    |-> count + 1]

\* variant of PushImages: the page's images replace the list
replace_images(list, images, seen) == images

\* The loop of update over `images`: push every image whose link was not
\* seen earlier in this call (seen_images starts empty at every call).
RECURSIVE PushImages(_, _, _)
PushImages(list, images, seen) ==
    IF images = <<>> THEN list
    ELSE LET img == Head(images) IN
         IF img.link \in seen
         THEN PushImages(list, Tail(images), seen)
         ELSE PushImages(Append(list, img), Tail(images), seen \cup {img.link})

\* The loop of update over `titles`
RECURSIVE PushTitles(_, _, _)
PushTitles(list, titles, seen) ==
    IF titles = <<>> THEN list
    ELSE LET t == Head(titles) IN
         IF t \in seen
         THEN PushTitles(list, Tail(titles), seen)
         ELSE PushTitles(Append(list, t), Tail(titles), seen \cup {t})

\* variant of update: the parent is looked up after the url is registered
update_parent_after(g, count, url, parent, children, images, titles) ==
    LET r    == force_get_link_id(g, count, url)
        has_parent == parent \in DOMAIN r.link_ids
        parent_id  == r.link_ids[parent]
        valid_children ==
            {g.link_ids[c] : c \in SeqToSet(children) \cap DOMAIN g.link_ids}
        link == r.links[r.id]
        link1 == [link EXCEPT
                    !.parents  = IF has_parent THEN @ \cup {parent_id} ELSE @,
                    !.children = @ \cup valid_children,
                    !.images   = PushImages(@, images, {}),
                    !.titles   = PushTitles(@, titles, {})]
        links1 == [r.links EXCEPT ![r.id] = link1]
    IN  [graph |-> [links |->
                       IF has_parent
                       THEN [links1 EXCEPT ![parent_id].children = @ \cup {r.id}]
                       ELSE links1,
                    link_ids |-> r.link_ids],
         count |-> r.count, ok |-> TRUE]

\* variant of update: the parent's children set is left alone
update_one_way(g, count, url, parent, children, images, titles) ==
    LET has_parent == parent \in DOMAIN g.link_ids
        parent_id  == g.link_ids[parent]
        valid_children ==
            {g.link_ids[c] : c \in SeqToSet(children) \cap DOMAIN g.link_ids}
        r    == force_get_link_id(g, count, url)
        link == r.links[r.id]
        link1 == [link EXCEPT
                    !.parents  = IF has_parent THEN @ \cup {parent_id} ELSE @,
                    !.children = @ \cup valid_children,
                    !.images   = PushImages(@, images, {}),
                    !.titles   = PushTitles(@, titles, {})]
    IN  [graph |-> [links |-> [r.links EXCEPT ![r.id] = link1],
                    link_ids |-> r.link_ids],
         count |-> r.count, ok |-> TRUE]

\* variant of update: a child that is not registered is recorded under a
\* placeholder id (0 is never a uuid)
update_placeholder_children(g, count, url, parent, children, images, titles) ==
    LET has_parent == parent \in DOMAIN g.link_ids
        parent_id  == g.link_ids[parent]
        valid_children ==
            {IF c \in DOMAIN g.link_ids THEN g.link_ids[c] ELSE 0 :
                c \in SeqToSet(children)}
        r    == force_get_link_id(g, count, url)
        link == r.links[r.id]
        link1 == [link EXCEPT
                    !.parents  = IF has_parent THEN @ \cup {parent_id} ELSE @,
                    !.children = @ \cup valid_children,
                    !.images   = PushImages(@, images, {}),
                    !.titles   = PushTitles(@, titles, {})]
        links1 == [r.links EXCEPT ![r.id] = link1]
    IN  [graph |-> [links |->
                       IF has_parent
                       THEN [links1 EXCEPT ![parent_id].children = @ \cup {r.id}]
                       ELSE links1,
                    link_ids |-> r.link_ids],
         count |-> r.count, ok |-> TRUE]

\* LinkGraph::update.  Result: the graph, the uuid counter and whether the
\* call returned Ok.
update(g, count, url, parent, children, images, titles) ==
    LET has_parent == parent \in DOMAIN g.link_ids
        parent_id  == g.link_ids[parent]
        valid_children ==
            {g.link_ids[c] : c \in SeqToSet(children) \cap DOMAIN g.link_ids}
        r    == force_get_link_id(g, count, url)
        link == r.links[r.id]
        link1 == [link EXCEPT
                    !.parents  = IF has_parent THEN @ \cup {parent_id} ELSE @,
                    !.children = @ \cup valid_children,
                    !.images   = PushImages(@, images, {}),
                    !.titles   = PushTitles(@, titles, {})]
        links1 == [r.links EXCEPT ![r.id] = link1]
    IN  IF has_parent /\ parent_id \notin DOMAIN links1
        THEN [graph |-> [links |-> links1, link_ids |-> r.link_ids],
              count |-> r.count, ok |-> FALSE]
        ELSE [graph |-> [links |->
                            IF has_parent
                            THEN [links1 EXCEPT ![parent_id].children = @ \cup {r.id}]
                            ELSE links1,
                         link_ids |-> r.link_ids],
              count |-> r.count, ok |-> TRUE]

(***************************************************************************)
(* SpecGraph: any sequence of update calls on a Link Graph.                *)
(***************************************************************************)
MaxUpdates == 3

GA == Txt("http", <<"e", ".", "c">>, "/", "")
GB == Txt("http", <<"e", ".", "c">>, "/b", "")
GC == Txt("http", <<"s", ".", "e", ".", "c">>, "/", "")

GraphUrls == {GA, GB, GC}
GraphParents == {EmptyString, GA, GB}
GraphChildren == {<<GB>>, <<GC, GA>>}

I1 == Image("i1", "a")
I1b == Image("i1", "b")
I2 == Image("i2", "a")

\* what a page can hold: (images, titles)
GraphContents ==
    { <<<<>>, <<>>>>,
      <<<<I1, I1b, I2>>, <<"t1", "t2", "t1">>>>,
      <<<<I2, I1b>>, <<"t2">>>> }

NoLog == [attempts |-> 0, sleeps |-> <<>>, errs |-> <<>>, result |-> "none"]

\* client.get(link).send() failed: there is no response
SendFailed == [content_type |-> "", last |-> <<>>, sent |-> FALSE]

\* try_download_image has not been called
NoResult == [result |-> "none", created |-> {}, ext |-> <<>>]

\* the image pipeline has not started
ImgIdle ==
    /\ max_images = 0
    /\ dir_exists = FALSE
    /\ dl_pc = "idle"
    /\ dl_order = <<>>
    /\ dl_todo = <<>>
    /\ dl_calls = <<>>
    /\ attempt = 0
    /\ last_error = "none"
    /\ dl_log = NoLog
    /\ n_logged = 0
    /\ files = {}
    /\ ext_res = SendFailed
    /\ ext_out = NoResult

\* no crawl is running
CrawlIdle ==
    /\ starting_url = EmptyString
    /\ n_workers = 0
    /\ max_links = 0
    /\ base_domain = <<>>
    /\ link_queue = <<>>
    /\ visited_count = 0
    /\ queue_lock = 0
    /\ graph_lock = 0
    /\ pc = <<>>
    /\ cur = <<>>
    /\ scrape_output = <<>>
    /\ idx = <<>>
    /\ fetched = <<>>
    /\ starved_early = FALSE
    /\ status_pc = "off"

NoUpdate == [url |-> EmptyString, parent |-> EmptyString, ok |-> TRUE]

InitGraph ==
    /\ mode = "graph"
    /\ link_graph = EmptyGraph
    /\ uuid_count = 0
    /\ n_updates = 0
    /\ primaries = {}
    /\ last_update = NoUpdate
    /\ image_metadata = <<>>
    /\ ImgIdle
    /\ CrawlIdle

UpdateCall ==
    /\ mode = "graph"
    /\ n_updates < MaxUpdates
    /\ \E url \in GraphUrls, parent \in GraphParents,
          children \in GraphChildren, content \in GraphContents :
        LET r == update(link_graph, uuid_count, url, parent, children,
                        content[1], content[2]) IN
        /\ link_graph' = r.graph
        /\ uuid_count' = r.count
        /\ primaries' = primaries \cup {url}
        /\ last_update' = [url |-> url, parent |-> parent, ok |-> r.ok]
    /\ n_updates' = n_updates + 1
    /\ UNCHANGED <<mode, image_metadata, img_vars, crawl_vars>>

\* Uuid::to_string: the hyphenated text of a uuid, one text per uuid
UuidToString(id) == <<"uuid", id>>

\* the orders in which a HashMap holding the keys S can be iterated
Orders(S) ==
    {o \in [1..Cardinality(S) -> S] : \A i, j \in DOMAIN o : i # j => o[i] # o[j]}

\* flat_map(|(_, link)| link.images.clone()) over the links in iteration order
RECURSIVE FlatMapImages(_, _)
FlatMapImages(links, order) ==
    IF order = <<>> THEN <<>>
    ELSE links[Head(order)].images \o FlatMapImages(links, Tail(order))

\* variant of convert_links_to_images that keeps one entry per source url
RECURSIVE CollectByLink(_, _, _)
CollectByLink(imgs, count, seen) ==
    IF imgs = <<>> THEN <<>>
    ELSE IF Head(imgs).link \in seen
         THEN CollectByLink(Tail(imgs), count, seen)
         ELSE LET rest == CollectByLink(Tail(imgs), count + 1, seen \cup {Head(imgs).link})
              IN  MapInsert(rest, UuidToString(NewUuid(count)), Head(imgs))

convert_links_to_images_dedup(g, count, order) ==
    LET imgs == FlatMapImages(g.links, order)
        m == CollectByLink(imgs, count, {}) IN
    [map |-> m, count |-> count + Cardinality(DOMAIN m)]

\* convert_links_to_images: every image of every link, in the iteration order
\* `order` of the links map, keyed by the text of a fresh uuid.
convert_links_to_images(g, count, order) ==
    LET imgs == FlatMapImages(g.links, order) IN
    [map   |-> [k \in {UuidToString(NewUuid(count + i - 1)) : i \in 1..Len(imgs)}
                  |-> imgs[k[2] - count]],
     count |-> count + Len(imgs)]

\* try_main, lines 246-250, on the graph the update calls have built, or
\* the graph of the crawl once every task is joined
Flatten ==
    /\ mode \in {"graph", "joined"}
    /\ \E order \in Orders(DOMAIN link_graph.links) :
        LET r == convert_links_to_images(link_graph, uuid_count, order) IN
        /\ image_metadata' = r.map
        /\ uuid_count' = r.count
    /\ mode' = "flattened"
    /\ UNCHANGED <<link_graph, n_updates, primaries, last_update, img_vars, crawl_vars>>

NextGraph == UpdateCall \/ Flatten

SpecGraph == InitGraph /\ [][NextGraph]_vars

(***************************************************************************)
(* The image pipeline: download_images, download_image,                    *)
(* try_download_image and get_extension.                                   *)
(***************************************************************************)
MAX_RETRIES == 3

\* what client.get(link).send() can give: a failure (SendFailed), or a
\* response with its content-type header ("" when there is none) and the last
\* path segment of its url, as characters
Response(ct, last) == [content_type |-> ct, last |-> last, sent |-> TRUE]

\* the content-type table of get_extension; <<>> stands for None
ContentTypeExtension(ct) ==
    CASE ct = "image/gif" -> <<"g", "i", "f">>
      [] ct \in {"image/jpeg", "image/jpg"} -> <<"j", "p", "g">>
      [] ct = "image/png" -> <<"p", "n", "g">>
      [] ct = "image/svg+xml" -> <<"s", "v", "g">>
      [] ct = "image/webp" -> <<"w", "e", "b", "p">>
      [] ct \in {"image/tiff", "image/tif"} -> <<"t", "i", "f">>
      [] ct = "image/avif" -> <<"a", "v", "i", "f">>
      [] ct = "image/bmp" -> <<"b", "m", "p">>
      [] OTHER -> <<>>

\* str::rfind('.'): the index of the last '.', 0 when there is none
RFindDot(s) ==
    LET dots == {i \in DOMAIN s : s[i] = "."} IN
    IF dots = {} THEN 0 ELSE CHOOSE i \in dots : \A j \in dots : j <= i

\* str::to_lowercase, character by character
LowerChar(c) ==
    CASE c = "J" -> "j" [] c = "P" -> "p" [] c = "E" -> "e" [] c = "G" -> "g"
      [] OTHER -> c

ToLowercase(s) == [i \in DOMAIN s |-> LowerChar(s[i])]

MaxExtensionLen == 5

\* variant of get_extension: the url's suffix is tried before the content-type
get_extension_url_first(res) ==
    LET dot_idx == RFindDot(res.last)
        ext == SubSeq(res.last, dot_idx + 1, Len(res.last))
    IN  IF dot_idx # 0 /\ ext # <<>> /\ Len(ext) <= MaxExtensionLen
        THEN [ok |-> TRUE, ext |-> ToLowercase(ext)]
        ELSE IF ContentTypeExtension(res.content_type) # <<>>
        THEN [ok |-> TRUE, ext |-> ContentTypeExtension(res.content_type)]
        ELSE [ok |-> FALSE, ext |-> <<>>]

\* get_extension: [ok, ext]
get_extension(res) ==
    IF ContentTypeExtension(res.content_type) # <<>>
    THEN [ok |-> TRUE, ext |-> ContentTypeExtension(res.content_type)]
    ELSE LET dot_idx == RFindDot(res.last)
             ext == SubSeq(res.last, dot_idx + 1, Len(res.last))
         IN  IF dot_idx # 0 /\ ext # <<>> /\ Len(ext) <= MaxExtensionLen
             THEN [ok |-> TRUE, ext |-> ToLowercase(ext)]
             ELSE [ok |-> FALSE, ext |-> <<>>]

\* try_download_image, given what the network and the disk do:
\* [result: "ok" or the failing step, created: the files it created]
try_download_image(destination, res, create_ok, stream_ok) ==
    IF ~res.sent THEN [result |-> "send", created |-> {}]
    ELSE LET e == get_extension(res) IN
         IF ~e.ok THEN [result |-> "extension", created |-> {}]
         ELSE IF ~create_ok THEN [result |-> "create", created |-> {}]
         ELSE IF ~stream_ok
              THEN [result |-> "stream", created |-> {<<destination, e.ext>>}]
              ELSE [result |-> "ok", created |-> {<<destination, e.ext>>}]

\* variant of sleeps_after: no backoff at all
sleeps_after_never(att) == FALSE

\* download_image, line 56: whether to sleep after the failed attempt
sleeps_after(att) == att < MAX_RETRIES - 1

\* variant of backoff: the same delay every time
backoff_constant(att) == 500

\* download_image, line 57: the delay in milliseconds
backoff(att) == 500 * (att + 1)

\* variant of after_download: the error is returned with `?`
after_download_propagate(result) == IF result = "ok" THEN "iter" ELSE "failed"

\* download_images, lines 133-135: after download_image returned `result`,
\* "iter" to go on with the loop, "failed" to return the error
after_download(result) == "iter"

\* iter().take(n) of a sequence
Take(seq, n) == SubSeq(seq, 1, IF n < Len(seq) THEN n ELSE Len(seq))

\* variant of take_max: no take at all
take_all(order, max) == order

\* images.iter().take(max_links as usize)
take_max(order, max) == Take(order, max)

MaxEntries == 2

ImgResponses ==
    { SendFailed,
      Response("image/webp", <<"a", ".", "p", "n", "g">>),
      Response("", <<"a", ".", "J", "P", "E", "G">>),
      Response("text/html", <<"a">>) }

\* the maps a flatten can have produced: n images under the keys 1..n
ImgMaps ==
    { [k \in {UuidToString(i) : i \in 1..n} |-> IF k[2] = 2 THEN I2 ELSE I1] :
        n \in 0..MaxEntries }

InitImg ==
    /\ mode = "images"
    /\ link_graph = EmptyGraph
    /\ uuid_count = 0
    /\ n_updates = 0
    /\ primaries = {}
    /\ last_update = NoUpdate
    /\ image_metadata \in ImgMaps
    /\ max_images \in 0..(MaxEntries + 1)
    /\ dir_exists \in BOOLEAN
    /\ dl_pc = "start"
    /\ dl_order = <<>>
    /\ dl_todo = <<>>
    /\ dl_calls = <<>>
    /\ attempt = 0
    /\ last_error = "none"
    /\ dl_log = NoLog
    /\ n_logged = 0
    /\ files = {}
    /\ ext_res = SendFailed
    /\ ext_out = NoResult
    /\ CrawlIdle

\* download_images, lines 119-126: the directory, then the iterator
DownloadImagesStart ==
    /\ dl_pc = "start"
    /\ \E created \in BOOLEAN, order \in Orders(DOMAIN image_metadata) :
        IF ~dir_exists /\ ~created
        THEN /\ dl_pc' = "failed"
             /\ UNCHANGED <<dir_exists, dl_order, dl_todo>>
        ELSE /\ dir_exists' = TRUE
             /\ dl_order' = order
             /\ dl_todo' = take_max(order, max_images)
             /\ dl_pc' = "iter"
    /\ UNCHANGED <<graph_vars, mode, image_metadata, max_images, dl_calls,
                   attempt, last_error, dl_log, n_logged, files,
                   ext_res, ext_out, crawl_vars>>

\* download_images, lines 126-133: the next entry, and the call of
\* download_image up to the head of its loop
DownloadImagesNext ==
    /\ dl_pc = "iter"
    /\ dl_todo # <<>>
    /\ dl_calls' = Append(dl_calls, Head(dl_todo))
    /\ dl_todo' = Tail(dl_todo)
    /\ attempt' = 0
    /\ last_error' = "none"
    /\ dl_log' = [attempts |-> 0, sleeps |-> <<>>, errs |-> <<>>, result |-> "running"]
    /\ dl_pc' = "try"
    /\ UNCHANGED <<graph_vars, mode, image_metadata, max_images, dir_exists,
                   dl_order, n_logged, files,
                   ext_res, ext_out, crawl_vars>>

\* download_images, line 138
DownloadImagesReturn ==
    /\ dl_pc = "iter"
    /\ dl_todo = <<>>
    /\ dl_pc' = "done"
    /\ UNCHANGED <<graph_vars, mode, image_metadata, max_images, dir_exists,
                   dl_order, dl_todo, dl_calls, attempt, last_error, dl_log,
                   n_logged, files,
                   ext_res, ext_out, crawl_vars>>

\* download_image, lines 51-63: one attempt; on the last failure the return
\* of last_error, and download_images' handling of it (lines 133-135)
DownloadAttempt ==
    /\ dl_pc = "try"
    /\ \E res \in ImgResponses, create_ok \in BOOLEAN, stream_ok \in BOOLEAN :
        LET r == try_download_image(dl_calls[Len(dl_calls)], res, create_ok, stream_ok)
        IN
        /\ files' = files \cup r.created
        /\ IF r.result = "ok"
           THEN /\ dl_log' = [dl_log EXCEPT !.attempts = @ + 1, !.result = "ok"]
                /\ dl_pc' = after_download("ok")
                /\ UNCHANGED <<attempt, last_error, n_logged>>
           ELSE /\ last_error' = r.result
                /\ IF sleeps_after(attempt)
                   THEN /\ dl_log' = [dl_log EXCEPT !.attempts = @ + 1,
                                                    !.errs = Append(@, r.result)]
                        /\ dl_pc' = "sleep"
                        /\ UNCHANGED <<attempt, n_logged>>
                   ELSE IF attempt + 1 < MAX_RETRIES
                   THEN /\ dl_log' = [dl_log EXCEPT !.attempts = @ + 1,
                                                    !.errs = Append(@, r.result)]
                        /\ attempt' = attempt + 1
                        /\ dl_pc' = "try"
                        /\ UNCHANGED n_logged
                   ELSE /\ dl_log' = [dl_log EXCEPT !.attempts = @ + 1,
                                                    !.errs = Append(@, r.result),
                                                    !.result = r.result]
                        /\ attempt' = attempt + 1
                        /\ n_logged' = n_logged + 1
                        /\ dl_pc' = after_download(r.result)
    /\ UNCHANGED <<graph_vars, mode, image_metadata, max_images, dir_exists,
                   dl_order, dl_todo, dl_calls,
                   ext_res, ext_out, crawl_vars>>

\* download_image, line 57, and the step of the for loop
DownloadSleep ==
    /\ dl_pc = "sleep"
    /\ dl_log' = [dl_log EXCEPT !.sleeps = Append(@, backoff(attempt))]
    /\ attempt' = attempt + 1
    /\ dl_pc' = "try"
    /\ UNCHANGED <<graph_vars, mode, image_metadata, max_images, dir_exists,
                   dl_order, dl_todo, dl_calls, last_error, n_logged, files,
                   ext_res, ext_out, crawl_vars>>

NextImg ==
    \/ DownloadImagesStart
    \/ DownloadImagesNext
    \/ DownloadImagesReturn
    \/ DownloadAttempt
    \/ DownloadSleep

SpecImg == InitImg /\ [][NextImg]_vars

(***************************************************************************)
(* SpecExt: one call of try_download_image, for any response.              *)
(***************************************************************************)
MaxSegLen == 7

\* the texts of at most n characters over the alphabet S
SeqsUpTo(S, n) == UNION {[1..k -> S] : k \in 0..n}

\* the content-type headers tried: none, the keys of the table, and two
\* that are not in it
ContentTypes ==
    { "", "image/gif", "image/jpeg", "image/jpg", "image/png", "image/svg+xml",
      "image/webp", "image/tiff", "image/tif", "image/avif", "image/bmp",
      "text/html", "image/webp; q=1" }

\* the last path segments tried
LastSegments ==
    SeqsUpTo({"a", ".", "G"}, MaxSegLen) \cup {<<"a", ".", "J", "P", "E", "G">>}

ExtResponses ==
    {SendFailed} \cup {Response(ct, last) : ct \in ContentTypes, last \in LastSegments}

InitExt ==
    /\ mode = "extension"
    /\ link_graph = EmptyGraph
    /\ uuid_count = 0
    /\ n_updates = 0
    /\ primaries = {}
    /\ last_update = NoUpdate
    /\ image_metadata = <<>>
    /\ max_images = 0
    /\ dir_exists = TRUE
    /\ dl_pc = "idle"
    /\ dl_order = <<>>
    /\ dl_todo = <<>>
    /\ dl_calls = <<>>
    /\ attempt = 0
    /\ last_error = "none"
    /\ dl_log = NoLog
    /\ n_logged = 0
    /\ files = {}
    /\ ext_res \in ExtResponses
    /\ ext_out = NoResult
    /\ CrawlIdle

\* try_download_image(link, "d", client), the response being ext_res
TryDownload ==
    /\ mode = "extension"
    /\ \E create_ok \in BOOLEAN, stream_ok \in BOOLEAN :
        LET r == try_download_image("d", ext_res, create_ok, stream_ok) IN
        /\ ext_out' = [result |-> r.result, created |-> r.created,
                       ext |-> IF ext_res.sent /\ get_extension(ext_res).ok
                               THEN get_extension(ext_res).ext ELSE <<>>]
        /\ files' = files \cup r.created
    /\ mode' = "resolved"
    /\ UNCHANGED <<graph_vars, image_metadata, max_images, dir_exists, dl_pc,
                   dl_order, dl_todo, dl_calls, attempt, last_error, dl_log,
                   n_logged, ext_res, crawl_vars>>

NextExt == TryDownload

SpecExt == InitExt /\ [][NextExt]_vars

(***************************************************************************)
(* The crawl: new_crawler_state, crawl, and the driver's join (try_main).  *)
(***************************************************************************)
\* Url::parse on a text: Ok iff the text has a scheme (a text without one is
\* a relative reference, which Url::parse rejects)
ParseOk(s) == s.scheme # ""

\* is the host an IPv4 address (digits and dots)
IsIp(host) == host # <<>> /\ \A i \in DOMAIN host : host[i] \in Digits \cup {"."}

\* the Url that Url::parse builds: an http(s) url always has a path
UrlParse(s) ==
    [s EXCEPT !.path = IF s.scheme \in {"http", "https"} /\ @ = "" THEN "/" ELSE @]

\* Url::set_fragment(None) followed by Url::to_string
Normalized(u) == [u EXCEPT !.frag = ""]

\* Url::domain: the host when it is a domain name, <<>> for None
Domain(u) == IF u.host = <<>> \/ IsIp(u.host) THEN <<>> ELSE u.host

\* variant of is_same_domain: the suffix test without the "."
is_same_domain_no_dot(url_domain, base) ==
    url_domain = base \/ EndsWith(url_domain, base)

\* is_same_domain
is_same_domain(url_domain, base) ==
    url_domain = base \/ EndsWith(url_domain, <<".">> \o base)

Localhost == <<"l", "o", "c", "a", "l", "h", "o", "s", "t">>

\* new_crawler_state, lines 201-204
BaseDomainOf(seed) ==
    IF ParseOk(seed) /\ Domain(UrlParse(seed)) # <<>>
    THEN Domain(UrlParse(seed))
    ELSE Localhost

LinkPath(parent, child) == [parent |-> parent, child |-> child]

\* crawl, lines 105-126: whether the dequeued child goes on to the dedup
\* check
passes_validation(child, base) ==
    /\ child # EmptyString
    /\ ParseOk(child)
    /\ UrlParse(child).scheme \in {"http", "https"}
    /\ Domain(UrlParse(child)) # <<>> => is_same_domain(Domain(UrlParse(child)), base)

\* variant of should_add: no test of the scheme
should_add_any_scheme(link, g, base) ==
    /\ ParseOk(link)
    /\ Domain(UrlParse(link)) # <<>>
    /\ is_same_domain(Domain(UrlParse(link)), base)
    /\ ~link_visited(g, Normalized(UrlParse(link)))

\* crawl, lines 156-167: should_add
should_add(link, g, base) ==
    /\ ParseOk(link)
    /\ UrlParse(link).scheme \in {"http", "https"}
    /\ Domain(UrlParse(link)) # <<>>
    /\ is_same_domain(Domain(UrlParse(link)), base)
    /\ ~link_visited(g, Normalized(UrlParse(link)))

\* variant of starved: an empty queue never ends a worker
starved_never(queue) == FALSE

\* crawl, line 98: link_queue.is_empty()
starved(queue) == queue = <<>>

\* variant of budget_reached: the budget counts as spent one page early
budget_reached_early(count, max) == count + 1 >= max

\* variant of budget_reached: > for >=
budget_reached_off_by_one(count, max) == count > max

\* crawl, lines 84, 137, 152: visited_count >= max_links
budget_reached(count, max) == count >= max

MaxWorkers == 2
MaxLinks == 2

HostE == <<"e", ".", "c">>
HostSub == <<"s", ".", "e", ".", "c">>
HostOther == <<"x", "e", ".", "c">>
HostIp == <<"1", ".", "2", ".", "3", ".", "4">>

UrlSeed == Txt("http", HostE, "", "")
UrlSeedFrag == Txt("http", HostE, "/", "f")
UrlB == Txt("http", HostE, "/b", "")
UrlSub == Txt("https", HostSub, "/a", "f")
UrlOther == Txt("http", HostOther, "/", "")
UrlIp == Txt("http", HostIp, "/", "")
UrlMail == Txt("mailto", <<>>, "u", "")
UrlRelative == Txt("", <<>>, "a", "")
UrlFtp == Txt("ftp", HostE, "/", "")

\* args.starting_url
Seeds == {UrlSeed, UrlIp, UrlMail, UrlRelative}

\* what scrape_page can return; the first is also what a failed fetch gives
NoOutput == [links |-> <<>>, images |-> <<>>, titles |-> <<>>]

ScrapeOutputs ==
    { NoOutput,
      [links |-> <<UrlB, UrlMail, UrlB, UrlSub>>, images |-> <<I1>>, titles |-> <<"t1">>],
      [links |-> <<UrlSub, UrlOther, UrlSeedFrag, UrlIp, UrlRelative, UrlFtp, UrlSub>>,
       images |-> <<I1, I2>>, titles |-> <<"t2">>] }

Workers == 1..n_workers

NoCur == [parent |-> EmptyString, url |-> EmptyString]

\* new_crawler_state and the spawning of the workers (try_main, lines
\* 221-231)
NewCrawl ==
    /\ mode = "crawl"
    /\ link_graph = EmptyGraph
    /\ uuid_count = 0
    /\ n_updates = 0
    /\ primaries = {}
    /\ last_update = NoUpdate
    /\ image_metadata = <<>>
    /\ ImgIdle
    /\ n_workers \in 1..MaxWorkers
    /\ max_links \in 0..MaxLinks
    /\ starting_url \in Seeds
    /\ base_domain = BaseDomainOf(starting_url)
    /\ link_queue = <<LinkPath(EmptyString, starting_url)>>
    /\ visited_count = 0
    /\ queue_lock = 0
    /\ graph_lock = 0
    /\ pc = [w \in Workers |-> "check"]
    /\ cur = [w \in Workers |-> NoCur]
    /\ scrape_output = [w \in Workers |-> NoOutput]
    /\ idx = [w \in Workers |-> 0]
    /\ fetched = <<>>
    /\ starved_early = FALSE

\* a run without --log-status: no status task is spawned
Init == NewCrawl /\ status_pc = "off"

\* what no step of a worker changes
idle_vars == <<n_updates, primaries, last_update, image_metadata, img_vars,
               starting_url, status_pc>>
other_vars == <<idle_vars, starved_early>>

\* the positions between fetch_add and the end of the fold: the worker's
\* page is admitted and its links are not all enqueued yet
InFlight == {"fetch", "lockq", "lockg", "fold"}

\* line 84
Check(w) ==
    /\ pc[w] = "check"
    /\ pc' = [pc EXCEPT ![w] = IF budget_reached(visited_count, max_links)
                                THEN "done" ELSE "pop"]
    /\ UNCHANGED <<link_graph, uuid_count, mode, other_vars, n_workers, max_links,
                   base_domain, link_queue, visited_count, queue_lock, graph_lock,
                   cur, scrape_output, idx, fetched>>

\* variant of Pop: pop_front for pop_back
pop_front(w) ==
    /\ pc[w] = "pop"
    /\ queue_lock = 0
    /\ IF link_queue = <<>>
       THEN /\ pc' = [pc EXCEPT ![w] = "recheck"]
            /\ UNCHANGED <<link_queue, cur>>
       ELSE LET path == Head(link_queue) IN
            /\ link_queue' = Tail(link_queue)
            /\ IF passes_validation(path.child, base_domain)
               THEN /\ cur' = [cur EXCEPT ![w] =
                                 [parent |-> path.parent,
                                  url |-> Normalized(UrlParse(path.child))]]
                    /\ pc' = [pc EXCEPT ![w] = "dedup"]
               ELSE /\ pc' = [pc EXCEPT ![w] = "check"]
                    /\ UNCHANGED cur
    /\ UNCHANGED <<link_graph, uuid_count, mode, other_vars, n_workers, max_links,
                   base_domain, visited_count, queue_lock, graph_lock,
                   scrape_output, idx, fetched>>

\* lines 88-126: pop_back under the queue's write lock, then the validation
Pop(w) ==
    /\ pc[w] = "pop"
    /\ queue_lock = 0
    /\ IF link_queue = <<>>
       THEN /\ pc' = [pc EXCEPT ![w] = "recheck"]
            /\ UNCHANGED <<link_queue, cur>>
       ELSE LET path == link_queue[Len(link_queue)] IN
            /\ link_queue' = SubSeq(link_queue, 1, Len(link_queue) - 1)
            /\ IF passes_validation(path.child, base_domain)
               THEN /\ cur' = [cur EXCEPT ![w] =
                                 [parent |-> path.parent,
                                  url |-> Normalized(UrlParse(path.child))]]
                    /\ pc' = [pc EXCEPT ![w] = "dedup"]
               ELSE /\ pc' = [pc EXCEPT ![w] = "check"]
                    /\ UNCHANGED cur
    /\ UNCHANGED <<link_graph, uuid_count, mode, other_vars, n_workers, max_links,
                   base_domain, visited_count, queue_lock, graph_lock,
                   scrape_output, idx, fetched>>

\* lines 96-101: after the sleep, is_empty under the queue's read lock
Recheck(w) ==
    /\ pc[w] = "recheck"
    /\ queue_lock = 0
    /\ pc' = [pc EXCEPT ![w] = IF starved(link_queue) THEN "done" ELSE "check"]
    /\ starved_early' =
          (starved_early \/ (starved(link_queue) /\ \E v \in Workers : pc[v] \in InFlight))
    /\ UNCHANGED <<link_graph, uuid_count, mode, idle_vars, n_workers, max_links,
                   base_domain, link_queue, visited_count, queue_lock, graph_lock,
                   cur, scrape_output, idx, fetched>>

\* lines 128-135: link_visited under the graph's read lock
Dedup(w) ==
    /\ pc[w] = "dedup"
    /\ graph_lock = 0
    /\ IF link_visited(link_graph, cur[w].url)
       THEN /\ pc' = [pc EXCEPT ![w] = "check"]
            /\ cur' = [cur EXCEPT ![w] = NoCur]
       ELSE /\ pc' = [pc EXCEPT ![w] = "admit"]
            /\ UNCHANGED cur
    /\ UNCHANGED <<link_graph, uuid_count, mode, other_vars, n_workers, max_links,
                   base_domain, link_queue, visited_count, queue_lock, graph_lock,
                   scrape_output, idx, fetched>>

\* lines 137-139
Admit(w) ==
    /\ pc[w] = "admit"
    /\ IF budget_reached(visited_count, max_links)
       THEN /\ pc' = [pc EXCEPT ![w] = "done"]
            /\ cur' = [cur EXCEPT ![w] = NoCur]
       ELSE /\ pc' = [pc EXCEPT ![w] = "incr"]
            /\ UNCHANGED cur
    /\ UNCHANGED <<link_graph, uuid_count, mode, other_vars, n_workers, max_links,
                   base_domain, link_queue, visited_count, queue_lock, graph_lock,
                   scrape_output, idx, fetched>>

\* line 141
Incr(w) ==
    /\ pc[w] = "incr"
    /\ visited_count' = visited_count + 1
    /\ pc' = [pc EXCEPT ![w] = "fetch"]
    /\ UNCHANGED <<link_graph, uuid_count, mode, other_vars, n_workers, max_links,
                   base_domain, link_queue, queue_lock, graph_lock,
                   cur, scrape_output, idx, fetched>>

\* lines 143-146: scrape_page and the politeness sleep
Fetch(w) ==
    /\ pc[w] = "fetch"
    /\ \E out \in ScrapeOutputs : scrape_output' = [scrape_output EXCEPT ![w] = out]
    /\ fetched' = MapInsert(fetched, cur[w].url,
                            IF cur[w].url \in DOMAIN fetched
                            THEN fetched[cur[w].url] + 1 ELSE 1)
    /\ pc' = [pc EXCEPT ![w] = "lockq"]
    /\ UNCHANGED <<link_graph, uuid_count, mode, other_vars, n_workers, max_links,
                   base_domain, link_queue, visited_count, queue_lock, graph_lock,
                   cur, idx>>

\* line 148
LockQueue(w) ==
    /\ pc[w] = "lockq"
    /\ queue_lock = 0
    /\ queue_lock' = w
    /\ pc' = [pc EXCEPT ![w] = "lockg"]
    /\ UNCHANGED <<link_graph, uuid_count, mode, other_vars, n_workers, max_links,
                   base_domain, link_queue, visited_count, graph_lock,
                   cur, scrape_output, idx, fetched>>

\* line 149
LockGraph(w) ==
    /\ pc[w] = "lockg"
    /\ graph_lock = 0
    /\ graph_lock' = w
    /\ idx' = [idx EXCEPT ![w] = 1]
    /\ pc' = [pc EXCEPT ![w] = "fold"]
    /\ UNCHANGED <<link_graph, uuid_count, mode, other_vars, n_workers, max_links,
                   base_domain, link_queue, visited_count, queue_lock,
                   cur, scrape_output, fetched>>

\* lines 151-178: one turn of the loop over scrape_output.links
FoldLink(w) ==
    /\ pc[w] = "fold"
    /\ idx[w] <= Len(scrape_output[w].links)
    /\ ~budget_reached(visited_count, max_links)
    /\ LET link == scrape_output[w].links[idx[w]] IN
       link_queue' =
          IF should_add(link, link_graph, base_domain)
          THEN Append(link_queue, LinkPath(cur[w].url, Normalized(UrlParse(link))))
          ELSE link_queue
    /\ idx' = [idx EXCEPT ![w] = @ + 1]
    /\ UNCHANGED <<link_graph, uuid_count, mode, other_vars, n_workers, max_links,
                   base_domain, visited_count, queue_lock, graph_lock, pc,
                   cur, scrape_output, fetched>>

\* lines 151-154 and 180-189: the loop ends, the graph is updated, both
\* guards are dropped
FoldUpdate(w) ==
    /\ pc[w] = "fold"
    /\ \/ idx[w] > Len(scrape_output[w].links)
       \/ budget_reached(visited_count, max_links)
    /\ LET r == update(link_graph, uuid_count, cur[w].url, cur[w].parent,
                       scrape_output[w].links, scrape_output[w].images,
                       scrape_output[w].titles) IN
       /\ link_graph' = r.graph
       /\ uuid_count' = r.count
    /\ queue_lock' = 0
    /\ graph_lock' = 0
    /\ pc' = [pc EXCEPT ![w] = "check"]
    /\ cur' = [cur EXCEPT ![w] = NoCur]
    /\ scrape_output' = [scrape_output EXCEPT ![w] = NoOutput]
    /\ idx' = [idx EXCEPT ![w] = 0]
    /\ UNCHANGED <<mode, other_vars, n_workers, max_links, base_domain,
                   link_queue, visited_count, fetched>>

AllDone == \A w \in Workers : pc[w] = "done"

\* ghost: the number of scrape_page calls made so far
RECURSIVE SumOver(_, _)
SumOver(f, S) ==
    IF S = {} THEN 0
    ELSE LET x == CHOOSE y \in S : TRUE IN f[x] + SumOver(f, S \ {x})

NumFetches == SumOver(fetched, DOMAIN fetched)

\* try_main, lines 240-246: every task has been joined
JoinAll ==
    /\ mode = "crawl"
    /\ AllDone
    /\ status_pc \in {"off", "done"}
    /\ mode' = "joined"
    /\ UNCHANGED <<graph_vars, image_metadata, img_vars, crawl_vars>>

\* the workers' steps (crawl, lines 83-189) and the driver's
Next ==
    \/ \E w \in Workers : Check(w)
    \/ \E w \in Workers : Pop(w)
    \/ \E w \in Workers : Recheck(w)
    \/ \E w \in Workers : Dedup(w)
    \/ \E w \in Workers : Admit(w)
    \/ \E w \in Workers : Incr(w)
    \/ \E w \in Workers : Fetch(w)
    \/ \E w \in Workers : LockQueue(w)
    \/ \E w \in Workers : LockGraph(w)
    \/ \E w \in Workers : FoldLink(w)
    \/ \E w \in Workers : FoldUpdate(w)
    \/ JoinAll
    \/ Flatten

Spec == Init /\ [][Next]_vars

\* the runtime keeps running the tasks that can run: as long as a worker or
\* the driver can take a step, some step is taken
FairSpec == Spec /\ WF_vars(Next)

(***************************************************************************)
(* SpecStatus: a crawl run with --log-status, the output_status task being *)
(* joined with the workers.                                                *)
(***************************************************************************)
\* try_main, lines 233-238: the status task is spawned as well
InitStatus == NewCrawl /\ status_pc = "poll"

\* output_status, line 59: whether the loop is left
status_stops(len, max) == len > max

\* output_status, lines 56-65: both read guards are taken (no worker is in
\* its fold), the size is compared and the guards are dropped again
StatusPoll ==
    /\ mode = "crawl"
    /\ status_pc = "poll"
    /\ queue_lock = 0
    /\ graph_lock = 0
    /\ status_pc' = IF status_stops(GraphLen(link_graph), max_links)
                    THEN "done" ELSE "sleep"
    /\ UNCHANGED <<graph_vars, mode, image_metadata, img_vars, starting_url,
                   n_workers, max_links, base_domain, link_queue, visited_count,
                   queue_lock, graph_lock, pc, cur, scrape_output, idx, fetched,
                   starved_early>>

\* output_status, line 70: the sleep is over
StatusSleep ==
    /\ mode = "crawl"
    /\ status_pc = "sleep"
    /\ status_pc' = "poll"
    /\ UNCHANGED <<graph_vars, mode, image_metadata, img_vars, starting_url,
                   n_workers, max_links, base_domain, link_queue, visited_count,
                   queue_lock, graph_lock, pc, cur, scrape_output, idx, fetched,
                   starved_early>>

NextStatus ==
    \/ Next
    \/ StatusPoll
    \/ StatusSleep

SpecStatus == InitStatus /\ [][NextStatus]_vars

(***************************************************************************)
(* Properties of the Link Graph and of the flatten (under SpecGraph).      *)
(***************************************************************************)
Links == link_graph.links
LinkIds == link_graph.link_ids

\* the (link id, position) pairs of the images the graph holds
ImagePairs ==
    UNION {{<<id, i>> : i \in DOMAIN Links[id].images} : id \in DOMAIN Links}

\* C5: after any sequence of update calls no Link's images list holds two
\* entries with the same source URL and no titles list holds two equal
\* strings.
C5_ListsHaveNoDuplicates ==
    \A id \in DOMAIN Links :
        /\ \A i, j \in DOMAIN Links[id].images :
              i # j => Links[id].images[i].link # Links[id].images[j].link
        /\ \A i, j \in DOMAIN Links[id].titles :
              i # j => Links[id].titles[i] # Links[id].titles[j]

\* C6: size() is the number of distinct strings passed as the primary url
\* of an update call.
C6_SizeIsDistinctPrimaries == GraphLen(link_graph) = Cardinality(primaries)

\* some url was registered twice and the latest call named a parent that
\* was never a primary url
C6_Witness ==
    /\ n_updates > Cardinality(primaries)
    /\ Cardinality(primaries) >= 2
    /\ last_update.parent \notin primaries \cup {EmptyString}

C7_OneToOne ==
    /\ \A u \in DOMAIN LinkIds :
          /\ LinkIds[u] \in DOMAIN Links
          /\ Links[LinkIds[u]].url = u
          /\ Links[LinkIds[u]].id = LinkIds[u]
    /\ \A id \in DOMAIN Links :
          /\ Links[id].url \in DOMAIN LinkIds
          /\ LinkIds[Links[id].url] = id

C7_KeepsId ==
    /\ \A u \in DOMAIN LinkIds :
          u \in DOMAIN LinkIds' /\ LinkIds'[u] = LinkIds[u]
    /\ (n_updates' > n_updates /\ last_update'.url \in DOMAIN LinkIds)
          => DOMAIN Links' = DOMAIN Links

\* C7: the url-to-id map and the id-to-Link map are in one-to-one
\* correspondence in every state, and an update for a registered url keeps
\* every id and creates no Link.
C7_RegistrationIdempotent == []C7_OneToOne /\ [][C7_KeepsId]_vars

\* the latest update named a url that an earlier update had registered
C7_Witness ==
    /\ mode = "graph"
    /\ n_updates = 2
    /\ Cardinality(primaries) = 1
    /\ GraphLen(link_graph) = 1
    /\ last_update.url \in DOMAIN LinkIds

\* C10: the flatten yields one entry per (Link, Image) pair, each under a
\* fresh id and with the image unchanged.
C10_FlattenOnePerPair ==
    mode = "flattened" =>
        /\ Cardinality(DOMAIN image_metadata) = Cardinality(ImagePairs)
        /\ \A k \in DOMAIN image_metadata :
              /\ k[2] \notin DOMAIN Links
              /\ \E p \in ImagePairs : Links[p[1]].images[p[2]] = image_metadata[k]
        /\ \A p \in ImagePairs :
              LET img == Links[p[1]].images[p[2]] IN
              Cardinality({k \in DOMAIN image_metadata : image_metadata[k] = img})
                = Cardinality({q \in ImagePairs : Links[q[1]].images[q[2]] = img})

\* two pages hold the same image, and the flatten has two entries for it
C10_Witness ==
    /\ mode = "flattened"
    /\ \E p, q \in ImagePairs :
          /\ p[1] # q[1]
          /\ Links[p[1]].images[p[2]] = Links[q[1]].images[q[2]]
          /\ \E k1, k2 \in DOMAIN image_metadata :
                /\ k1 # k2
                /\ image_metadata[k1] = Links[p[1]].images[p[2]]
                /\ image_metadata[k2] = Links[p[1]].images[p[2]]

\* the step is an update call
IsUpdateStep == n_updates' = n_updates + 1

\* the effect of an update call on the parent edge, and its frame
C17_UpdateStep ==
    IsUpdateStep =>
        LET url == last_update'.url
            parent == last_update'.parent
            had_parent == parent \in DOMAIN LinkIds
            pid == LinkIds[parent]
            uid == LinkIds'[url]
            touched == {uid} \cup (IF had_parent THEN {pid} ELSE {})
        IN  /\ url \in DOMAIN LinkIds'
            /\ uid \in DOMAIN Links'
            /\ Links'[uid].url = url
            /\ uid \in DOMAIN Links =>
                  /\ SubSeq(Links'[uid].images, 1, Len(Links[uid].images))
                        = Links[uid].images
                  /\ SubSeq(Links'[uid].titles, 1, Len(Links[uid].titles))
                        = Links[uid].titles
            /\ had_parent =>
                  /\ uid \in Links'[pid].children
                  /\ pid \in Links'[uid].parents
            /\ ~had_parent =>
                  /\ \A id \in DOMAIN Links :
                        Links'[id].parents = Links[id].parents
                  /\ uid \notin DOMAIN Links => Links'[uid].parents = {}
                  /\ \A id \in DOMAIN Links \ {uid} :
                        Links'[id].children = Links[id].children
            /\ \A id \in DOMAIN Links \ touched : Links'[id] = Links[id]
            /\ DOMAIN Links' \subseteq DOMAIN Links \cup {uid}

\* C17: an update whose parent url is registered before the call puts url's
\* id in the parent's children and the parent's id in url's parents; an
\* update whose parent url is not registered registers url and records its
\* content, changes no parents set and no other Link's children set; Links
\* other than url and the parent are not modified.
C17_UpdateFrame == [][C17_UpdateStep]_vars

\* the latest update named a parent registered before it, the edge is
\* there both ways, and a third Link stands by
C17_Witness ==
    /\ mode = "graph"
    /\ GraphLen(link_graph) = 3
    /\ last_update.parent \in DOMAIN LinkIds
    /\ last_update.parent # last_update.url
    /\ LinkIds[last_update.url] \in Links[LinkIds[last_update.parent]].children
    /\ LinkIds[last_update.parent] \in Links[LinkIds[last_update.url]].parents

\* C18, as claimed: edges are symmetric, c's id is in p's children iff p's
\* id is in c's parents.
C18_EdgesSymmetric ==
    \A p, c \in DOMAIN Links :
        c \in Links[p].children <=> p \in Links[c].parents

\* C18, amended: every parents entry is mirrored, if p's id is in c's
\* parents then c's id is in p's children (the converse can fail: the ids
\* taken from child_urls are recorded on the updated Link only).
C18_ParentEdgesMirrored ==
    \A p, c \in DOMAIN Links :
        p \in Links[c].parents => c \in Links[p].children

\* one Link has a parent, and some Link lists a child that does not list
\* it as a parent
C18_Witness ==
    /\ \E p, c \in DOMAIN Links : p \in Links[c].parents
    /\ \E p, c \in DOMAIN Links :
          c \in Links[p].children /\ p \notin Links[c].parents

C19_NoDangling ==
    \A id \in DOMAIN Links :
        /\ Links[id].parents \subseteq DOMAIN Links
        /\ Links[id].children \subseteq DOMAIN Links

\* the children an update adds to url's Link are ids registered before the
\* call
C19_OnlyRegisteredChildren ==
    IsUpdateStep =>
        LET uid == LinkIds'[last_update'.url]
            old == IF uid \in DOMAIN Links THEN Links[uid].children ELSE {}
        IN  Links'[uid].children \ old \subseteq DOMAIN Links

\* C19: every id in a parents or children set is the id of a registered
\* Link, and a child url that is not registered when update is called adds
\* nothing to the children set.
C19_NoDanglingEdges == []C19_NoDangling /\ [][C19_OnlyRegisteredChildren]_vars

\* three Links: one has a child, one has a parent, and one has no child
\* although every update call it was registered by passed child urls
C19_Witness ==
    /\ mode = "graph"
    /\ GraphLen(link_graph) = 3
    /\ \E id \in DOMAIN Links : Links[id].children # {}
    /\ \E id \in DOMAIN Links : Links[id].parents # {}
    /\ \E id \in DOMAIN Links : Links[id].children = {}

(***************************************************************************)
(* Properties of the image pipeline (under SpecImg).                       *)
(***************************************************************************)
DownloadFailed == dl_log.result \notin {"none", "running", "ok"}

\* C8: download_image makes at most 3 attempts; it returns Ok at the first
\* attempt that succeeds, having slept only between attempts; when all fail
\* it has made exactly 3 attempts, slept 500 then 1000 ms, and returns the
\* error of the last attempt.
C8_RetryContract ==
    /\ dl_log.attempts <= 3
    /\ dl_log.sleeps = [i \in 1..Len(dl_log.sleeps) |-> 500 * i]
    /\ dl_log.result = "running" =>
          /\ Len(dl_log.errs) = dl_log.attempts
          /\ Len(dl_log.sleeps) = IF dl_pc = "sleep" THEN dl_log.attempts - 1
                                                    ELSE dl_log.attempts
          /\ dl_log.attempts < 3
    /\ dl_log.result = "ok" =>
          /\ Len(dl_log.errs) = dl_log.attempts - 1
          /\ Len(dl_log.sleeps) = dl_log.attempts - 1
    /\ DownloadFailed =>
          /\ dl_log.attempts = 3
          /\ Len(dl_log.errs) = 3
          /\ dl_log.sleeps = <<500, 1000>>
          /\ dl_log.result = dl_log.errs[3]

\* a download failed three times, for different reasons
C8_Witness ==
    /\ DownloadFailed
    /\ dl_log.errs[1] # dl_log.errs[3]
    /\ dl_log.errs[2] # dl_log.errs[3]

Min(a, b) == IF a < b THEN a ELSE b

\* C9: with the directory in place, download_images calls download_image
\* once for each of the first min(max, n) entries of the map's iteration
\* order, goes on after a failed image, and returns Ok.
C9_BatchContinues ==
    /\ dl_pc = "failed" => ~dir_exists
    /\ dl_pc \in {"iter", "try", "sleep", "done"} =>
          /\ dl_calls \o dl_todo =
                SubSeq(dl_order, 1, Min(max_images, Cardinality(DOMAIN image_metadata)))
          /\ \A i, j \in DOMAIN dl_calls : i # j => dl_calls[i] # dl_calls[j]
    /\ dl_pc = "done" => dl_todo = <<>>
    /\ dl_pc \in {"start", "iter", "try", "sleep"} => ENABLED NextImg

\* the batch returned Ok although its first image failed every attempt, and
\* the second image was downloaded after it
C9_Witness ==
    /\ dl_pc = "done"
    /\ Len(dl_calls) = 2
    /\ n_logged = 1
    /\ dl_log.result = "ok"

\* the content-type table, as pairs
ExtTable ==
    { <<"image/gif", <<"g", "i", "f">>>>,
      <<"image/jpeg", <<"j", "p", "g">>>>,
      <<"image/jpg", <<"j", "p", "g">>>>,
      <<"image/png", <<"p", "n", "g">>>>,
      <<"image/svg+xml", <<"s", "v", "g">>>>,
      <<"image/webp", <<"w", "e", "b", "p">>>>,
      <<"image/tiff", <<"t", "i", "f">>>>,
      <<"image/tif", <<"t", "i", "f">>>>,
      <<"image/avif", <<"a", "v", "i", "f">>>>,
      <<"image/bmp", <<"b", "m", "p">>>> }

\* e is s in lower case
IsLowerOf(e, s) ==
    /\ Len(e) = Len(s)
    /\ \A i \in DOMAIN s :
          \/ /\ s[i] \notin {"J", "P", "E", "G"}
             /\ e[i] = s[i]
          \/ <<s[i], e[i]>> \in {<<"J", "j">>, <<"P", "p">>, <<"E", "e">>, <<"G", "g">>}

\* the texts of 1 to 5 characters that follow a '.' of last and hold no '.'
\* themselves: at most one, what follows the final '.'
ShortSuffixes(last) ==
    { SubSeq(last, k + 1, Len(last)) :
        k \in {i \in DOMAIN last :
                 /\ last[i] = "."
                 /\ Len(last) - i \in 1..5
                 /\ \A j \in (i + 1)..Len(last) : last[j] # "."} }

\* C12: a content-type of the table gives its extension whatever the url
\* (image/webp gives webp); otherwise the text after the final '.' of the
\* last path segment, lower-cased, if it is not empty and has at most 5
\* characters (.JPEG gives jpeg); otherwise the resolution fails, and with
\* it the download attempt, no file being created.
C12_ExtensionOrder ==
    (mode = "resolved" /\ ext_res.sent) =>
        LET ct == ext_res.content_type
            last == ext_res.last
        IN  /\ IF \E p \in ExtTable : p[1] = ct
               THEN <<ct, ext_out.ext>> \in ExtTable
               ELSE IF ShortSuffixes(last) # {}
               THEN \E suffix \in ShortSuffixes(last) : IsLowerOf(ext_out.ext, suffix)
               ELSE /\ ext_out.result = "extension"
                    /\ ext_out.ext = <<>>
            /\ ct = "image/webp" => ext_out.ext = <<"w", "e", "b", "p">>
            /\ (ct = "" /\ last = <<"a", ".", "J", "P", "E", "G">>)
                  => ext_out.ext = <<"j", "p", "e", "g">>
            /\ ext_out.result = "extension" => (ext_out.created = {} /\ files = {})
            /\ ext_out.result = "ok" =>
                  (ext_out.ext # <<>> /\ files = {<<"d", ext_out.ext>>})

\* a response whose content-type is not in the table and whose url ends in
\* a suffix of 6 characters: the attempt failed and there is no file
C12_Witness ==
    /\ mode = "resolved"
    /\ ext_res.sent
    /\ ext_res.content_type = "text/html"
    /\ Len(ext_res.last) = 7
    /\ ext_res.last[1] = "."
    /\ \A i \in 2..7 : ext_res.last[i] # "."
    /\ ext_out.result = "extension"
    /\ files = {}

(***************************************************************************)
(* Properties of the crawl (under Spec and FairSpec).                      *)
(***************************************************************************)
\* C1: the visited counter, and with it the number of page fetches, never
\* exceeds max_links + (W - 1), W >= 1 the number of workers.
C1_OvershootBound ==
    /\ visited_count <= max_links + (n_workers - 1)
    /\ NumFetches <= visited_count

\* every worker overshot: the counter stands at max_links + (W - 1), W > 1,
\* and each increment was followed by its fetch
C1_Witness ==
    /\ n_workers > 1
    /\ max_links > 0
    /\ visited_count = max_links + (n_workers - 1)
    /\ NumFetches = visited_count

\* C2: with no status task and a fetcher that always returns, every worker
\* exits and the driver's join completes.
C2_CrawlTerminates == <>(mode = "joined")

\* the join completed after workers left by budget exhaustion with entries
\* still queued
C2_Witness ==
    /\ mode = "joined"
    /\ n_workers > 1
    /\ visited_count >= max_links
    /\ link_queue # <<>>

\* the seed is fetched: it is not empty, parses, and is http or https
SeedValid ==
    /\ starting_url # EmptyString
    /\ ParseOk(starting_url)
    /\ starting_url.scheme \in {"http", "https"}

\* C3, as claimed: with max_links = 1 the run fetches exactly one page and
\* the counter ends at 1, whatever the seed.
C3_OnePageAnySeed ==
    (max_links = 1 /\ AllDone) => (visited_count = 1 /\ NumFetches = 1)

C3_Bounded ==
    (max_links = 1 /\ SeedValid) =>
        /\ visited_count <= 1
        /\ NumFetches <= 1
        /\ DOMAIN fetched \subseteq {Normalized(UrlParse(starting_url))}
        /\ AllDone => (visited_count = 1 /\ NumFetches = 1)

C3_NothingEnqueued == max_links = 1 => Len(link_queue') <= Len(link_queue)

\* C3, amended: with max_links = 1, at least one worker and a seed that is
\* not empty, parses and is http or https, exactly one page, the seed, is
\* fetched, no step ever enqueues a frontier entry, and the counter ends at 1.
C3_OnePageValidSeed == []C3_Bounded /\ [][C3_NothingEnqueued]_vars

\* the run is over, the seed's page held links, and nothing was enqueued
C3_Witness ==
    /\ max_links = 1
    /\ n_workers > 1
    /\ mode = "joined"
    /\ visited_count = 1
    /\ link_queue = <<>>
    /\ \E id \in DOMAIN Links : Links[id].titles = <<"t1">>

\* d is the domain b or a subdomain of it
InScope(d, b) ==
    \/ d = b
    \/ \E k \in DOMAIN d : d[k] = "." /\ SubSeq(d, k + 1, Len(d)) = b

\* the conditions of C4 on an extracted link
Enqueueable(link) ==
    /\ ParseOk(link)
    /\ link.scheme \in {"http", "https"}
    /\ ~IsIp(link.host)
    /\ InScope(link.host, base_domain)
    /\ [UrlParse(link) EXCEPT !.frag = ""] \notin DOMAIN LinkIds
    /\ visited_count < max_links

C4_FoldStep ==
    \A w \in Workers :
        (pc[w] = "fold" /\ idx'[w] = idx[w] + 1) =>
            LET link == scrape_output[w].links[idx[w]] IN
            IF Enqueueable(link)
            THEN link_queue' = Append(link_queue,
                    [parent |-> cur[w].url,
                     child |-> [UrlParse(link) EXCEPT !.frag = ""]])
            ELSE link_queue' = link_queue

C4_OnlyFoldEnqueues ==
    Len(link_queue') > Len(link_queue) =>
        \E w \in Workers : pc[w] = "fold" /\ idx'[w] = idx[w] + 1

C4_QueueInScope ==
    \A i \in DOMAIN link_queue :
        link_queue[i].parent # EmptyString =>
            /\ link_queue[i].child.scheme \in {"http", "https"}
            /\ link_queue[i].child.frag = ""
            /\ InScope(link_queue[i].child.host, base_domain)

\* C4: the fold enqueues {parent: fetched url, child: normalized link} for a
\* link iff it parses, is http(s), has the base domain or a subdomain of it,
\* is not registered and the counter is below max_links; so no mailto or
\* off-domain link is ever in the frontier.
C4_FoldEnqueuesIff ==
    /\ []C4_QueueInScope
    /\ [][C4_FoldStep /\ C4_OnlyFoldEnqueues]_vars

\* a fold is past a subdomain link and an off-domain link: the first is
\* queued, the second is not
C4_Witness ==
    \E w \in Workers :
        /\ pc[w] = "fold"
        /\ idx[w] = 3
        /\ scrape_output[w].links[1] = UrlSub
        /\ scrape_output[w].links[2] = UrlOther
        /\ link_queue # <<>>
        /\ link_queue[Len(link_queue)] =
              LinkPath(cur[w].url, Txt("https", HostSub, "/a", ""))

\* C11: with --log-status the status task stops once the graph size has
\* reached max_links (so that the join completes and the run goes on to the
\* image pipeline): a poll that finds the size at max_links or above is the
\* task's last.
C11_StatusStopsAtBudget ==
    [][(status_pc = "poll" /\ status_pc' # "poll"
          /\ GraphLen(link_graph) >= max_links) => status_pc' = "done"]_vars

\* C13: no normalized url is passed to the page fetcher more than once in a
\* crawl run, whatever the number of workers.
C13_NoDoubleFetch == \A u \in DOMAIN fetched : fetched[u] <= 1

\* C14: every url passed to the page fetcher is http or https and has the
\* base domain or a subdomain of it; an entry whose host has no domain name
\* (an IP address) is skipped like any entry out of scope.
C14_FetchedInScope ==
    \A u \in DOMAIN fetched :
        /\ u.scheme \in {"http", "https"}
        /\ ~IsIp(u.host)
        /\ InScope(u.host, base_domain)

\* a worker that finds the queue still empty after its sleep leaves, whatever
\* the other workers are doing; a worker that has left takes no further
\* step; entries are dequeued by running workers only
C15_StarvationStep ==
    /\ \A w \in Workers :
          /\ (pc[w] = "recheck" /\ pc'[w] # "recheck") =>
                pc'[w] = IF link_queue = <<>> THEN "done" ELSE "check"
          /\ pc[w] = "done" => pc'[w] = "done"
    /\ Len(link_queue') < Len(link_queue) =>
          \E w \in Workers : pc[w] = "pop" /\ pc'[w] # "pop"

\* C15: a worker whose re-check finds the queue empty exits even while
\* another worker has an admitted fetch in flight, and never resumes; what
\* that fetch enqueues afterwards is left to the workers still running.
\* That such a run exists is what C15_Witness shows.
C15_StarvedWorkerStaysOut == [][C15_StarvationStep]_vars

\* of two workers one left by starvation while the other's fetch was in
\* flight; budget remains, and the other worker has since enqueued an entry
\* for a link of the page it is folding
C15_Witness ==
    /\ n_workers = 2
    /\ starved_early
    /\ visited_count < max_links
    /\ \E w1, w2 \in Workers :
          /\ pc[w1] = "done"
          /\ pc[w2] = "fold"
          /\ link_queue # <<>>
          /\ link_queue[Len(link_queue)].parent = cur[w2].url

\* C16: when all workers have terminated, the visited counter is at least
\* max_links or the frontier queue is empty.
C16_NoPendingWithBudget ==
    AllDone => (visited_count >= max_links \/ link_queue = <<>>)

\* two workers have left by starvation: pages were fetched, entries were
\* enqueued and consumed, and budget remains
C16_Witness ==
    /\ mode = "joined"
    /\ n_workers = 2
    /\ NumFetches >= 1
    /\ GraphLen(link_graph) >= 1
    /\ visited_count < max_links
    /\ link_queue = <<>>

\* the step is worker w's leaving the fold: the graph update and the drop of
\* both guards
LeavesFold(w) == pc[w] = "fold" /\ pc'[w] # "fold"

\* what the end of a fold does when the fetch gave nothing
C20_EmptyPageStep ==
    \A w \in Workers :
        LeavesFold(w) =>
            /\ pc'[w] = "check"
            /\ \A v \in Workers \ {w} : pc'[v] = pc[v]
            /\ visited_count' = visited_count
            /\ cur[w].url \in DOMAIN LinkIds'
            /\ cur[w].parent \in DOMAIN LinkIds =>
                  /\ LinkIds[cur[w].parent] \in Links'[LinkIds'[cur[w].url]].parents
                  /\ LinkIds'[cur[w].url] \in Links'[LinkIds[cur[w].parent]].children
            /\ scrape_output[w] = NoOutput =>
                  /\ link_queue' = link_queue
                  /\ IF cur[w].url \in DOMAIN LinkIds
                     THEN /\ Links'[LinkIds'[cur[w].url]].images
                                = Links[LinkIds[cur[w].url]].images
                          /\ Links'[LinkIds'[cur[w].url]].titles
                                = Links[LinkIds[cur[w].url]].titles
                     ELSE /\ Links'[LinkIds'[cur[w].url]].images = <<>>
                          /\ Links'[LinkIds'[cur[w].url]].titles = <<>>
                          /\ Links'[LinkIds'[cur[w].url]].children = {}

\* no step takes a worker from the fetch or the fold to its end, and the
\* counter is never taken back
C20_WorkerGoesOn ==
    /\ visited_count' >= visited_count
    /\ \A w \in Workers :
          pc[w] \in {"incr", "fetch", "lockq", "lockg", "fold"} => pc'[w] # "done"

\* C20: a fetch that fails gives a page without links, images or titles;
\* the worker registers the url with its parent edge, keeps the counter's
\* increment and goes back to the budget check, and no other worker is
\* affected; whatever update returns, the worker goes on.
C20_FetchFailureContinues == [][C20_EmptyPageStep /\ C20_WorkerGoesOn]_vars

\* the fetch of /b gave nothing: /b is registered without content, as a
\* child of the seed's page, the counter stands at 2 and the worker is back
\* at the budget check
C20_Witness ==
    /\ visited_count = 2
    /\ \E w \in Workers : pc[w] = "check"
    /\ UrlB \in DOMAIN LinkIds
    /\ Links[LinkIds[UrlB]].images = <<>>
    /\ Links[LinkIds[UrlB]].titles = <<>>
    /\ Links[LinkIds[UrlB]].parents # {}
    /\ \E p \in DOMAIN Links : LinkIds[UrlB] \in Links[p].children

\* s is t, or t with entries added at its end
IsPrefix(s, t) == Len(s) <= Len(t) /\ SubSeq(t, 1, Len(s)) = s

\* what a step may do to the graph
C21_GrowStep ==
    /\ \A u \in DOMAIN LinkIds :
          u \in DOMAIN LinkIds' /\ LinkIds'[u] = LinkIds[u]
    /\ \A id \in DOMAIN Links :
          /\ id \in DOMAIN Links'
          /\ Links'[id].id = Links[id].id
          /\ Links'[id].url = Links[id].url
          /\ Links[id].parents \subseteq Links'[id].parents
          /\ Links[id].children \subseteq Links'[id].children
          /\ IsPrefix(Links[id].images, Links'[id].images)
          /\ IsPrefix(Links[id].titles, Links'[id].titles)
    /\ (AllDone \/ mode # "crawl") => link_graph' = link_graph

\* C21: across every step of a crawl the registered urls, their ids and
\* each Link's parents, children, images and titles are only extended, and
\* once all workers have terminated (join, flatten) the graph is not
\* changed any more.
C21_GraphOnlyGrows == [][C21_GrowStep]_vars

\* the flatten has run on the graph of a 2-worker crawl in which a page was
\* fetched twice, its second update having extended its images
C21_Witness ==
    /\ mode = "flattened"
    /\ n_workers = 2
    /\ image_metadata # <<>>
    /\ \E u \in DOMAIN fetched :
          /\ fetched[u] = 2
          /\ Len(Links[LinkIds[u]].images) = 3
    /\ \E id \in DOMAIN Links : Links[id].parents # {}

\* C22: the graph never holds more Links than the visited counter says, and
\* when all workers have terminated it holds one Link per distinct url
\* that was fetched.
C22_SizeWithinCounter ==
    /\ GraphLen(link_graph) <= visited_count
    /\ DOMAIN LinkIds \subseteq DOMAIN fetched
    /\ AllDone => GraphLen(link_graph) = Cardinality(DOMAIN fetched)

\* the run is over, a page was fetched twice: three fetches, two Links
C22_Witness ==
    /\ AllDone
    /\ visited_count = 3
    /\ NumFetches = 3
    /\ Cardinality(DOMAIN fetched) = 2
    /\ GraphLen(link_graph) = 2

\* what a step may do to the frontier: nothing, a push at the back, or a pop
\* of the entry at the back, which is the one the worker goes on with
C23_StackStep ==
    /\ Len(link_queue') = Len(link_queue) => link_queue' = link_queue
    /\ Len(link_queue') > Len(link_queue) =>
          /\ SubSeq(link_queue', 1, Len(link_queue)) = link_queue
          /\ Len(link_queue') = Len(link_queue) + 1
    /\ Len(link_queue') < Len(link_queue) =>
          /\ link_queue' = SubSeq(link_queue, 1, Len(link_queue) - 1)
          /\ queue_lock = 0
          /\ \E w \in Workers :
                /\ pc[w] = "pop"
                /\ pc'[w] \in {"dedup", "check"}
                /\ pc'[w] = "dedup" =>
                      /\ cur'[w].parent = link_queue[Len(link_queue)].parent
                      /\ cur'[w].url =
                            [UrlParse(link_queue[Len(link_queue)].child) EXCEPT !.frag = ""]

\* C23: the frontier is LIFO: entries are pushed and popped at the same
\* end, no entry is dequeued while a fold holds the queue, so the dequeue
\* that follows a fold returns the last link that fold enqueued, before
\* any older entry.
C23_FrontierIsLifo == [][C23_StackStep]_vars

\* the fold of the seed's page enqueued /b, /b and the subdomain link in
\* this order; the next dequeue returned the subdomain link, the two older
\* entries are still queued
C23_Witness ==
    \E w \in Workers :
        /\ pc[w] = "dedup"
        /\ cur[w].url = Txt("https", HostSub, "/a", "")
        /\ Len(link_queue) = 2
        /\ \A i \in DOMAIN link_queue :
              /\ link_queue[i].child = UrlB
              /\ link_queue[i].parent = cur[w].parent

====
